---- MODULE Spec2Model ----
(***************************************************************************)
(* Scan-Solver 3.0 (src/scan_solver_3.py): the root finders                *)
(* find_root_near, find_root_between, the boundary tracer find_limit and   *)
(* the construction of Scanner / Solver.                                   *)
(*                                                                         *)
(* Numbers.  A Python float is modelled as a scaled-down binary floating   *)
(* point number: an integer count of grid units with MantBits significant  *)
(* bits.  Every integer below 2^MantBits is representable (the solver's    *)
(* domain [0,1] is 0..ONE and lies well inside), above it the spacing      *)
(* doubles with every binade.  Sums, differences and quotients are rounded *)
(* to the nearest representable number, ties to even (Fl).  TOLERANCE lies *)
(* between two grid points (1e-5 is no multiple of the spacing of doubles) *)
(* and is therefore kept doubled, as TOLERANCE2.                           *)
(***************************************************************************)
EXTENDS Integers, Sequences, FiniteSets, TLC

VARIABLES
    mode,    \* which top-level call this run makes: "near", "between", "limit", "solver"
    pc,      \* the control location of the running function
    site,    \* where the running root finder returns to
    ret,     \* the value the last root finder call returned
    result,  \* the value the top-level call returned
    first,   \* find_root_between: the result of the call with the arguments in the given order
    nr,      \* find_root_near's parameters and locals
    rb,      \* find_root_between's parameters and locals
    lim,     \* find_limit's parameters and locals
    clo,     \* the callable(s) passed to the running root finder
    fmemo,   \* the values of an arbitrary fx, fixed at its first evaluation of each point
    dmemo,   \* the values of an arbitrary df_dx, likewise
    fn,      \* the parameters of fxy, df_dx, df_dy (find_limit)
    probed,  \* whether fxy, df_dx or df_dy was evaluated at x = 1, y = 1
    scanner, \* the Scanner's fields
    body,    \* the Body's radius
    solver   \* the Solver: its construction state and derived fields

vars == <<mode, pc, site, ret, result, first, nr, rb, lim, clo, fmemo, dmemo, fn,
          probed, scanner, body, solver>>

------------------------------------------------------------------------------
(* Bounds of the model *)

\* significant bits of a number: integers below 2^MantBits are exact
MantBits == 13
\* find_root_between's iteration counter stops counting here
MaxIter == 6

(* Program constants, in grid units *)

\* the domain bound 1 of x and y
ONE == 4096
\* twice TOLERANCE = 1e-5: TOLERANCE is 1024.5 grid units, ONE / 4 rounded up by half a unit
TOLERANCE2 == 2049
\* find_root_near's default max_dx = 1e-2
MAX_DX == 1536
\* inf, the initial _x of find_root_near
Inf == 2^29
VERBOSE == TRUE
BOTTOM == 0
TOP == 1
FOV_MAX == 20

\* the grid unit of the inputs drawn for the root finders: the largest width within TOLERANCE
U == TOLERANCE2 \div 2

------------------------------------------------------------------------------
(* Floating point arithmetic *)

Abs(v) == IF v < 0 THEN -v ELSE v

Min(a, b) == IF a < b THEN a ELSE b

\* the distance between adjacent representable numbers around magnitude q:
\* g, when q < top, and twice as much in every binade above
RECURSIVE SpacingFrom(_, _, _)
SpacingFrom(q, g, top) == IF q < top THEN g ELSE SpacingFrom(q, 2 * g, 2 * top)
Spacing(q) == SpacingFrom(q, 1, 2^MantBits)

\* N / D >= 0 rounded to a multiple of g, the nearest one, and the even one of two
RoundTo(N, D, g) ==
    LET lo == (N \div (D * g)) * g
        r2 == 2 * (N - lo * D)
    IN  IF r2 > g * D THEN lo + g
        ELSE IF r2 < g * D THEN lo
        ELSE IF (lo \div g) % 2 = 0 THEN lo ELSE lo + g

\* n / d rounded to the nearest representable number, ties to even
Fl(n, d) ==
    LET s == IF (n < 0) = (d < 0) THEN 1 ELSE -1
    IN  s * RoundTo(Abs(n), Abs(d), Spacing(Abs(n) \div Abs(d)))

Add(a, b) == Fl(a + b, 1)
Sub(a, b) == Fl(a - b, 1)
\* (a + b) / 2
Mid(a, b) == Fl(Add(a, b), 2)

\* a faulty variant: abs(a - b) > 0
ApartAtAll(a, b) == Abs(Sub(a, b)) > 0
\* abs(a - b) > TOLERANCE
Apart(a, b) == 2 * Abs(Sub(a, b)) > TOLERANCE2

\* an optional float: None, or a value
None == [none |-> TRUE, v |-> 0]
Some(v) == [none |-> FALSE, v |-> v]

------------------------------------------------------------------------------
(* The callables handed to the root finders *)

\* the values an arbitrary fx may take, and an arbitrary df_dx
FVals == {-3 * U, -U, 0, U, 3 * U}
DVals == {-1, 0, 2}

\* fxy and its partial derivatives as find_limit's caller supplies them:
\* fxy(x, y) = a*x + b*y + c, with df_dx = a and df_dy = b
FXY(f, x, y) == f.a * x + f.b * y + f.c
DFDX(f, x, y) == f.a
DFDY(f, x, y) == f.b

\* clo.kind = "fx":   fx and df_dx are arbitrary functions of one variable
\* clo.kind = "at_y": lambda _x: fxy(_x, y) and lambda _x: df_dx(_x, y), with y = clo.c
\* clo.kind = "at_x": lambda _y: fxy(x, _y) and lambda _y: df_dy(x, _y), with x = clo.c
PointOf(c, t) == IF c.kind = "at_y" THEN <<t, c.c>> ELSE <<c.c, t>>

\* the values fx(t) may return, given the values m fixed so far
FValues(m, c, t) ==
    IF c.kind = "fx"
    THEN IF t \in DOMAIN m THEN {m[t]} ELSE FVals
    ELSE {FXY(fn, PointOf(c, t)[1], PointOf(c, t)[2])}

\* the values df_dx(t) may return
DValues(m, c, t) ==
    IF c.kind = "fx"
    THEN IF t \in DOMAIN m THEN {m[t]} ELSE DVals
    ELSE IF c.kind = "at_y"
         THEN {DFDX(fn, t, c.c)}
         ELSE {DFDY(fn, c.c, t)}

\* m with the value v of the arbitrary function at t fixed
Remember(m, c, t, v) ==
    IF c.kind = "fx" /\ t \notin DOMAIN m THEN m @@ (t :> v) ELSE m

\* evaluating the callable at t evaluates fxy, df_dx or df_dy at x = 1, y = 1
Probes(c, t) == c.kind # "fx" /\ PointOf(c, t) = <<ONE, ONE>>

NoFrame == [x |-> 0]
NoMemo == [t \in {} |-> 0]

------------------------------------------------------------------------------
(* find_root_between(fx, x0, x1) *)

\* the call find_root_between(fx, a0, a1)
BetweenCall(a0, a1) ==
    [a0 |-> a0, a1 |-> a1, x0 |-> a0, x1 |-> a1, y0 |-> 0, y1 |-> 0,
     px0 |-> a0, px1 |-> a1, n |-> 0, warned |-> FALSE, nofound |-> FALSE]

\* a faulty variant: the swap of line 256 left out
BetweenStartUnswapped(r, v0, v1) ==
    [r EXCEPT !.y0 = v0, !.y1 = v1, !.warned = VERBOSE /\ v0 * v1 > 0]
\* lines 254-258: y0, y1 = fx(x0), fx(x1); swap on the wrong order, warn on equal signs
BetweenStart(r, v0, v1) ==
    IF v1 < 0 /\ 0 < v0
    THEN [r EXCEPT !.x0 = r.a1, !.y0 = v1, !.x1 = r.a0, !.y1 = v0]
    ELSE [r EXCEPT !.y0 = v0, !.y1 = v1, !.warned = VERBOSE /\ v0 * v1 > 0]

\* lines 261-269: one iteration of the loop, y = fx(x) at the midpoint x
BetweenBisect(r, x, y) ==
    LET s == [r EXCEPT !.px0 = r.x0, !.px1 = r.x1, !.n = Min(r.n + 1, MaxIter)]
    IN  IF y < 0
        THEN [s EXCEPT !.x0 = x, !.y0 = y]
        ELSE [s EXCEPT !.x1 = x, !.y1 = y]

\* a faulty variant: the midpoint whatever the signs
BetweenValueMidpoint(r) == Mid(r.x0, r.x1)
\* lines 271-277: the value returned
BetweenValue(r) ==
    IF r.y0 * r.y1 > 0
    THEN IF Abs(r.y0) < Abs(r.y1) THEN r.x0 ELSE r.x1
    ELSE Mid(r.x0, r.x1)

BetweenEntry ==
    /\ pc = "between_entry"
    /\ \E v0 \in FValues(fmemo, clo, rb.a0) :
         LET m0 == Remember(fmemo, clo, rb.a0, v0) IN
         \E v1 \in FValues(m0, clo, rb.a1) :
            /\ fmemo' = Remember(m0, clo, rb.a1, v1)
            /\ rb' = BetweenStart(rb, v0, v1)
    /\ probed' = (probed \/ Probes(clo, rb.a0) \/ Probes(clo, rb.a1))
    /\ pc' = "between_loop"
    /\ UNCHANGED <<mode, site, ret, result, first, nr, lim, clo, dmemo, fn,
                   scanner, body, solver>>

BetweenStep ==
    /\ pc = "between_loop"
    /\ Apart(rb.x0, rb.x1)
    /\ LET x == Mid(rb.x0, rb.x1) IN
         /\ \E y \in FValues(fmemo, clo, x) :
              /\ fmemo' = Remember(fmemo, clo, x, y)
              /\ rb' = BetweenBisect(rb, x, y)
         /\ probed' = (probed \/ Probes(clo, x))
    /\ UNCHANGED <<mode, pc, site, ret, result, first, nr, lim, clo, dmemo, fn,
                   scanner, body, solver>>

BetweenReturn ==
    /\ pc = "between_loop"
    /\ ~Apart(rb.x0, rb.x1)
    /\ rb' = [rb EXCEPT !.nofound = VERBOSE /\ rb.y0 * rb.y1 > 0]
    /\ ret' = Some(BetweenValue(rb))
    /\ pc' = site
    /\ UNCHANGED <<mode, site, result, first, nr, lim, clo, fmemo, dmemo, fn,
                   probed, scanner, body, solver>>

\* the same fx once more with the arguments in the other order
BetweenAgain ==
    /\ pc = "between_again"
    /\ first' = ret
    /\ rb' = BetweenCall(rb.a1, rb.a0)
    /\ site' = "done"
    /\ pc' = "between_entry"
    /\ UNCHANGED <<mode, ret, result, nr, lim, clo, fmemo, dmemo, fn,
                   probed, scanner, body, solver>>

\* x0 and x1 as the callers pass them, in and far outside the domain, where
\* adjacent numbers are further apart than TOLERANCE
Far == 2^(MantBits + 10)
FarArgs == {Far, Far + Spacing(Far)}
DomainArgs == {0, U, 2 * U + 1, 3 * U, ONE}
BetweenArgs == (DomainArgs \X DomainArgs) \cup (FarArgs \X FarArgs)

NoScanner == [fov |-> 0, altitude_min |-> 0, altitude_best |-> 0, altitude_max |-> 0]
NoSolver == [state |-> "none", fov |-> 0, fov_alt |-> 0, k |-> 0]
NoFn == [a |-> 0, b |-> 0, c |-> 0]

InitBetween ==
    /\ mode = "between"
    /\ pc = "between_entry"
    /\ site = "between_again"
    /\ \E a \in BetweenArgs : rb = BetweenCall(a[1], a[2])
    /\ clo = [kind |-> "fx", c |-> 0]
    /\ ret = None /\ result = None /\ first = None
    /\ nr = NoFrame /\ lim = NoFrame
    /\ fmemo = NoMemo /\ dmemo = NoMemo
    /\ fn = NoFn /\ probed = FALSE
    /\ scanner = NoScanner /\ body = 0 /\ solver = NoSolver

NextBetween == BetweenEntry \/ BetweenStep \/ BetweenReturn \/ BetweenAgain

SpecBetween == InitBetween /\ [][NextBetween]_vars

------------------------------------------------------------------------------
(* find_root_near(fx, df_dx, x0, direction, max_dx) *)

\* the call find_root_near(fx, df_dx, x0, direction, max_dx); _x, x = inf, x0
NearCall(x0, direction, max_dx) ==
    [x0 |-> x0, direction |-> direction, max_dx |-> max_dx,
     y0 |-> 0, px |-> Inf, x |-> x0]

\* a faulty variant: the plain Newton step, neither clamped nor directed
NearMoveNewton(n, y, dy) == Fl(y, dy)
\* lines 214-225: the step r taken from a point with fx = y and df_dx = dy # 0
NearMove(n, y, dy) ==
    LET r0   == Fl(y, dy)
        r1   == IF Abs(r0) > n.max_dx
                THEN IF r0 > 0 THEN n.max_dx ELSE -n.max_dx
                ELSE r0
        sign == IF n.y0 * y > 0 THEN n.direction ELSE -n.direction
    IN  IF r1 * sign < 0 THEN -r1 ELSE r1

\* a faulty variant: the domain check of line 230 left out
InUnitOrBeyond(x) == TRUE
\* line 230: 0 <= x <= 1
InUnit(x) == 0 <= x /\ x <= ONE

\* line 206: y0 = fx(x0)
NearEntry ==
    /\ pc = "near_entry"
    /\ \E v \in FValues(fmemo, clo, nr.x0) :
         /\ fmemo' = Remember(fmemo, clo, nr.x0, v)
         /\ nr' = [nr EXCEPT !.y0 = v]
    /\ probed' = (probed \/ Probes(clo, nr.x0))
    /\ pc' = "near_loop"
    /\ UNCHANGED <<mode, site, ret, result, first, rb, lim, clo, dmemo, fn,
                   scanner, body, solver>>

\* lines 209-231: one iteration of the loop; y / dy raises ZeroDivisionError for dy = 0
NearStep ==
    /\ pc = "near_loop"
    /\ Apart(nr.px, nr.x)
    /\ \E y \in FValues(fmemo, clo, nr.x), dy \in DValues(dmemo, clo, nr.x) :
         /\ fmemo' = Remember(fmemo, clo, nr.x, y)
         /\ dmemo' = Remember(dmemo, clo, nr.x, dy)
         /\ IF dy = 0
            THEN /\ nr' = nr
                 /\ pc' = "raised"
                 /\ ret' = ret
            ELSE LET x == Add(nr.x, NearMove(nr, y, dy)) IN
                 /\ nr' = [nr EXCEPT !.px = nr.x, !.x = x]
                 /\ pc' = IF InUnit(x) THEN pc ELSE site
                 /\ ret' = IF InUnit(x) THEN ret ELSE None
    /\ probed' = (probed \/ Probes(clo, nr.x))
    /\ UNCHANGED <<mode, site, result, first, rb, lim, clo, fn, scanner, body, solver>>

\* line 232: return x
NearReturn ==
    /\ pc = "near_loop"
    /\ ~Apart(nr.px, nr.x)
    /\ ret' = Some(nr.x)
    /\ pc' = site
    /\ UNCHANGED <<mode, site, result, first, nr, rb, lim, clo, fmemo, dmemo, fn,
                   probed, scanner, body, solver>>

NearStarts == {0, U, 2 * U, 3 * U, ONE}

InitNear ==
    /\ mode = "near"
    /\ pc = "near_entry"
    /\ site = "done"
    /\ \E x0 \in NearStarts, direction \in {1, -1}, max_dx \in {MAX_DX, 2 * U} :
         nr = NearCall(x0, direction, max_dx)
    /\ clo = [kind |-> "fx", c |-> 0]
    /\ ret = None /\ result = None /\ first = None
    /\ rb = NoFrame /\ lim = NoFrame
    /\ fmemo = NoMemo /\ dmemo = NoMemo
    /\ fn = NoFn /\ probed = FALSE
    /\ scanner = NoScanner /\ body = 0 /\ solver = NoSolver

NextNear == NearEntry \/ NearStep \/ NearReturn

SpecNear == InitNear /\ [][NextNear]_vars
\* the interpreter keeps executing the loop
FairNear == SpecNear /\ WF_vars(NextNear)

------------------------------------------------------------------------------
(* find_limit(fxy, df_dx, df_dy, side) *)

\* lines 284-288: sign = 1 - 2*side; x = 1 - side; x0, x1 = x, 1 - x; y = side
LimitCall(side) ==
    [side |-> side, sign |-> 1 - 2 * side,
     x |-> ONE * (1 - side), x0 |-> ONE * (1 - side), x1 |-> ONE * side,
     y |-> ONE * side,
     px0 |-> ONE * (1 - side), px1 |-> ONE * side, it |-> 0]

AtY(y) == [kind |-> "at_y", c |-> y]
AtX(x) == [kind |-> "at_x", c |-> x]

\* lines 289-297: the corner value decides between the search along x and the bisection along y
LimitStart ==
    /\ pc = "limit_start"
    /\ probed' = (probed \/ Probes(AtY(lim.y), lim.x))
    /\ IF FXY(fn, lim.x, lim.y) > 0
       THEN /\ clo' = AtY(lim.y)
            /\ nr' = NearCall(ONE * (1 - lim.side), -lim.sign, MAX_DX)
            /\ site' = "limit_near0"
            /\ pc' = "near_entry"
            /\ rb' = rb
       ELSE /\ clo' = AtX(lim.x)
            /\ rb' = BetweenCall(lim.x, ONE - lim.x)
            /\ site' = "limit_between0"
            /\ pc' = "between_entry"
            /\ nr' = nr
    /\ UNCHANGED <<mode, ret, result, first, lim, fmemo, dmemo, fn, scanner, body, solver>>

\* a faulty variant: a None from the search along x reported as failure
LimitAfterNear0Failing ==
    /\ pc = "limit_near0"
    /\ IF ret.none
       THEN /\ result' = None
            /\ pc' = "done"
            /\ lim' = lim
       ELSE /\ lim' = [lim EXCEPT !.x = ret.v, !.x0 = ret.v]
            /\ pc' = "limit_slope"
            /\ result' = result
    /\ UNCHANGED <<mode, site, ret, first, nr, rb, clo, fmemo, dmemo, fn, probed,
                   scanner, body, solver>>
\* lines 293-295: if x is None: return y; x0 = x
LimitAfterNear0 ==
    /\ pc = "limit_near0"
    /\ IF ret.none
       THEN /\ result' = Some(lim.y)
            /\ pc' = "done"
            /\ lim' = lim
       ELSE /\ lim' = [lim EXCEPT !.x = ret.v, !.x0 = ret.v]
            /\ pc' = "limit_slope"
            /\ result' = result
    /\ UNCHANGED <<mode, site, ret, first, nr, rb, clo, fmemo, dmemo, fn, probed,
                   scanner, body, solver>>

\* line 297: y = find_root_between(...)
LimitAfterBetween0 ==
    /\ pc = "limit_between0"
    /\ lim' = [lim EXCEPT !.y = ret.v]
    /\ pc' = "limit_slope"
    /\ UNCHANGED <<mode, site, ret, result, first, nr, rb, clo, fmemo, dmemo, fn,
                   probed, scanner, body, solver>>

\* lines 299-301: dx = sign * df_dx(x, y); if dx < 0: return y
LimitSlope ==
    /\ pc = "limit_slope"
    /\ probed' = (probed \/ Probes(AtY(lim.y), lim.x))
    /\ IF lim.sign * DFDX(fn, lim.x, lim.y) < 0
       THEN /\ result' = Some(lim.y)
            /\ pc' = "done"
       ELSE /\ result' = result
            /\ pc' = "limit_loop"
    /\ UNCHANGED <<mode, site, ret, first, nr, rb, lim, clo, fmemo, dmemo, fn,
                   scanner, body, solver>>

\* lines 303-310: an iteration starts: one end of the bracket moves to x, the
\* other is the result of the bisection along x
LimitLoop ==
    /\ pc = "limit_loop"
    /\ Apart(lim.x0, lim.x1)
    /\ probed' = (probed \/ Probes(AtY(lim.y), lim.x))
    /\ LET s == [lim EXCEPT !.px0 = lim.x0, !.px1 = lim.x1,
                            !.it = Min(lim.it + 1, MaxIter)]
       IN  IF lim.sign * DFDX(fn, lim.x, lim.y) > 0
           THEN /\ lim' = [s EXCEPT !.x0 = lim.x]
                /\ rb' = BetweenCall(lim.x, lim.x1)
                /\ site' = "limit_x1"
           ELSE /\ lim' = [s EXCEPT !.x1 = lim.x]
                /\ rb' = BetweenCall(lim.x, lim.x0)
                /\ site' = "limit_x0"
    /\ clo' = AtY(lim.y)
    /\ pc' = "between_entry"
    /\ UNCHANGED <<mode, ret, result, first, nr, fmemo, dmemo, fn, scanner, body, solver>>

\* a faulty variant: x = x0 + x1, the division by 2 of line 312 left out
LimitAfterBetween1NoHalf ==
    /\ pc \in {"limit_x1", "limit_x0"}
    /\ LET s == IF pc = "limit_x1" THEN [lim EXCEPT !.x1 = ret.v]
                                   ELSE [lim EXCEPT !.x0 = ret.v]
           x == Add(s.x0, s.x1)
           z == FXY(fn, x, lim.y)
       IN  /\ lim' = [s EXCEPT !.x = x]
           /\ probed' = (probed \/ Probes(AtY(lim.y), x))
           /\ clo' = AtX(x)
           /\ nr' = NearCall(lim.y, IF z < 0 THEN lim.sign ELSE -lim.sign, MAX_DX)
    /\ site' = "limit_near1"
    /\ pc' = "near_entry"
    /\ UNCHANGED <<mode, ret, result, first, rb, fmemo, dmemo, fn, scanner, body, solver>>
\* lines 307/310, 312-317: the bisection's result closes the bracket, x moves to
\* its midpoint and y is searched from there
LimitAfterBetween1 ==
    /\ pc \in {"limit_x1", "limit_x0"}
    /\ LET s == IF pc = "limit_x1" THEN [lim EXCEPT !.x1 = ret.v]
                                   ELSE [lim EXCEPT !.x0 = ret.v]
           x == Mid(s.x0, s.x1)
           z == FXY(fn, x, lim.y)
       IN  /\ lim' = [s EXCEPT !.x = x]
           /\ probed' = (probed \/ Probes(AtY(lim.y), x))
           /\ clo' = AtX(x)
           /\ nr' = NearCall(lim.y, IF z < 0 THEN lim.sign ELSE -lim.sign, MAX_DX)
    /\ site' = "limit_near1"
    /\ pc' = "near_entry"
    /\ UNCHANGED <<mode, ret, result, first, rb, fmemo, dmemo, fn, scanner, body, solver>>

\* lines 319-320: if y is None: return None
LimitAfterNear1 ==
    /\ pc = "limit_near1"
    /\ IF ret.none
       THEN /\ result' = None
            /\ pc' = "done"
            /\ lim' = lim
       ELSE /\ lim' = [lim EXCEPT !.y = ret.v]
            /\ pc' = "limit_loop"
            /\ result' = result
    /\ UNCHANGED <<mode, site, ret, first, nr, rb, clo, fmemo, dmemo, fn, probed,
                   scanner, body, solver>>

\* line 321: return y
LimitReturn ==
    /\ pc = "limit_loop"
    /\ ~Apart(lim.x0, lim.x1)
    /\ result' = Some(lim.y)
    /\ pc' = "done"
    /\ UNCHANGED <<mode, site, ret, first, nr, rb, lim, clo, fmemo, dmemo, fn,
                   probed, scanner, body, solver>>

\* the functions fxy handed to find_limit, with their partial derivatives
LimitSlopes == {-2, -1, 0, 1, 2}
LimitOffsets == {-6 * U, -4 * U - 1, -3 * U, -U, -1, 0, 1, U, 3 * U + 1, 5 * U}
LimitFns == [a : LimitSlopes, b : LimitSlopes, c : LimitOffsets]

InitLimit ==
    /\ mode = "limit"
    /\ pc = "limit_start"
    /\ site = "done"
    /\ \E side \in {BOTTOM, TOP} : lim = LimitCall(side)
    /\ fn \in LimitFns
    /\ clo = [kind |-> "fx", c |-> 0]
    /\ ret = None /\ result = None /\ first = None
    /\ nr = NoFrame /\ rb = NoFrame
    /\ fmemo = NoMemo /\ dmemo = NoMemo
    /\ probed = FALSE
    /\ scanner = NoScanner /\ body = 0 /\ solver = NoSolver

NextLimit ==
    \/ LimitStart \/ LimitAfterNear0 \/ LimitAfterBetween0 \/ LimitSlope
    \/ LimitLoop \/ LimitAfterBetween1 \/ LimitAfterNear1 \/ LimitReturn
    \/ BetweenEntry \/ BetweenStep \/ BetweenReturn
    \/ NearEntry \/ NearStep \/ NearReturn

SpecLimit == InitLimit /\ [][NextLimit]_vars

------------------------------------------------------------------------------
(* Scanner, get_scaled_fov_and_altitude and Solver.__init__ *)

\* fov in degrees, altitudes and radii in metres
R_KERBIN == 600000

\* sqrt(q), exact for the ratios of radii drawn below
Sqrt(q) == CHOOSE r \in 0..q : r * r <= q /\ q < (r + 1) * (r + 1)

\* lines 167-180; a ratio is kept in units of 1 / ONE
ScaledFov(sc, radius) ==
    LET fov == IF radius < R_KERBIN
               THEN Fl(sc.fov * Sqrt(Fl(R_KERBIN, radius)), 1)
               ELSE sc.fov
    IN  IF fov > FOV_MAX THEN FOV_MAX ELSE fov
ScaledAltitude(sc, radius) ==
    LET fov == IF radius < R_KERBIN
               THEN Fl(sc.fov * Sqrt(Fl(R_KERBIN, radius)), 1)
               ELSE sc.fov
    IN  IF fov > FOV_MAX
        THEN Fl(sc.altitude_best * Fl(FOV_MAX * ONE, fov), ONE)
        ELSE sc.altitude_best

ScannerFovs == {-5, 0, 5, 15, 40}
ScannerAltitudes == {5000, 70000, 250000}
BodyRadii == {150000, 600000, 2400000}

\* lines 132-137: the dataclass stores its four fields as given
ScannerNew ==
    /\ pc = "scanner_new"
    /\ \E fov \in ScannerFovs, lo \in ScannerAltitudes, best \in ScannerAltitudes,
          hi \in ScannerAltitudes :
         scanner' = [fov |-> fov, altitude_min |-> lo, altitude_best |-> best,
                     altitude_max |-> hi]
    /\ body' \in BodyRadii
    /\ pc' = "solver_new"
    /\ UNCHANGED <<mode, site, ret, result, first, nr, rb, lim, clo, fmemo, dmemo,
                   fn, probed, solver>>

\* lines 325-332: the only operation that can fail is the division by self.fov
SolverNew ==
    /\ pc = "solver_new"
    /\ LET fov     == ScaledFov(scanner, body)
           fov_alt == ScaledAltitude(scanner, body)
       IN  IF fov = 0
           THEN /\ solver' = [solver EXCEPT !.state = "raised", !.fov = fov,
                                            !.fov_alt = fov_alt]
                /\ pc' = "raised"
           ELSE /\ solver' = [solver EXCEPT !.state = "constructed", !.fov = fov,
                                            !.fov_alt = fov_alt,
                                            !.k = Fl(Fl(180 * fov_alt, 1), fov)]
                /\ pc' = "constructed"
    /\ UNCHANGED <<mode, site, ret, result, first, nr, rb, lim, clo, fmemo, dmemo,
                   fn, probed, scanner, body>>

InitSolver ==
    /\ mode = "solver"
    /\ pc = "scanner_new"
    /\ site = "done"
    /\ scanner = NoScanner /\ body = 0 /\ solver = NoSolver
    /\ clo = [kind |-> "fx", c |-> 0]
    /\ ret = None /\ result = None /\ first = None
    /\ nr = NoFrame /\ rb = NoFrame /\ lim = NoFrame
    /\ fmemo = NoMemo /\ dmemo = NoMemo
    /\ fn = NoFn /\ probed = FALSE

NextSolver == ScannerNew \/ SolverNew

SpecSolver == InitSolver /\ [][NextSolver]_vars

------------------------------------------------------------------------------
(* Properties of find_root_near *)

\* find_root_near has finished an iteration that moved x
NearStepped == mode = "near" /\ nr.px # Inf

\* C1: find_root_near terminates: it returns a value or None (or raises, where
\* df_dx is zero) after finitely many iterations.
C1_Terminates == (mode = "near") => <>(pc \in {"done", "raised"})

\* C2: an iterate outside [0, 1] makes the call return None in the iteration
\* that produced it: fx and df_dx are evaluated inside [0, 1] only, the loop
\* never continues from a point outside, and a value returned lies in [0, 1].
C2_DomainExit ==
    (mode = "near") =>
        /\ \A t \in (DOMAIN fmemo) \cup (DOMAIN dmemo) : 0 <= t /\ t <= ONE
        /\ (nr.x < 0 \/ nr.x > ONE) => (pc = "done" /\ ret = None)
        /\ (pc = "done" /\ ~ret.none) => (0 <= ret.v /\ ret.v <= ONE)

\* a second step took x beyond 1 and the call returned None
C2_Witness ==
    /\ NearStepped /\ pc = "done"
    /\ nr.x > ONE
    /\ ret = None
    /\ Cardinality(DOMAIN fmemo) >= 2

\* C9: the step an iteration applies, new x minus old x, has the magnitude of
\* the Newton step y / dy, cut to max_dx; it points in `direction` while
\* y0 * y > 0 and against it once y0 * y <= 0, whatever the sign of y / dy.
C9_StepRule ==
    NearStepped =>
        LET y  == fmemo[nr.px]
            dy == dmemo[nr.px]
            d  == nr.x - nr.px
        IN  /\ Abs(d) <= nr.max_dx
            /\ Abs(d) = Min(Abs(Fl(y, dy)), nr.max_dx)
            /\ (d # 0 /\ nr.y0 * y > 0) => ((d > 0) = (nr.direction > 0))
            /\ (d # 0 /\ nr.y0 * y <= 0) => ((d > 0) = (nr.direction < 0))

\* a clamped step against the sign of y / dy, after fx has changed sign
C9_Witness ==
    /\ NearStepped
    /\ nr.y0 * fmemo[nr.px] < 0
    /\ Abs(Fl(fmemo[nr.px], dmemo[nr.px])) > nr.max_dx
    /\ (Fl(fmemo[nr.px], dmemo[nr.px]) > 0) # (nr.x - nr.px > 0)
    /\ nr.px # nr.x0

------------------------------------------------------------------------------
(* Properties of find_root_between *)

\* t lies in the closed interval between a and b
Within(t, a, b) == (a <= t /\ t <= b) \/ (b <= t /\ t <= a)

\* find_root_between has evaluated fx at both of its arguments
BetweenEntered == mode = "between" /\ pc # "between_entry"
\* the call has returned
BetweenReturned == mode = "between" /\ pc \in {"between_again", "done"}

\* f(x0) < 0 < f(x1) or f(x1) < 0 < f(x0) at the arguments of the call
SignChange ==
    \/ fmemo[rb.a0] < 0 /\ 0 < fmemo[rb.a1]
    \/ fmemo[rb.a1] < 0 /\ 0 < fmemo[rb.a0]
\* f(x0) * f(x1) > 0 at the arguments of the call
SameSign == fmemo[rb.a0] * fmemo[rb.a1] > 0

\* both arguments of the call lie in the domain [0, 1]
InDomain == 0 <= rb.a0 /\ rb.a0 <= ONE /\ 0 <= rb.a1 /\ rb.a1 <= ONE

RECURSIVE Doublings(_, _)
Doublings(w2, t2) == IF w2 <= t2 THEN 0 ELSE 1 + Doublings(w2, 2 * t2)
\* ceil(log2(w / TOLERANCE)), and 0 for w <= TOLERANCE
Halvings(w) == Doublings(2 * w, TOLERANCE2)

\* C3: with a sign change between the arguments, in either order, the negative
\* side endpoint has f < 0 and the other f >= 0 throughout, both stay between
\* the arguments, the value returned is the midpoint of a final bracket no
\* wider than TOLERANCE, and both orders of the arguments return the same value.
C3_BracketedRoot ==
    (BetweenEntered /\ SignChange) =>
        /\ rb.y0 < 0 /\ rb.y1 >= 0
        /\ fmemo[rb.x0] = rb.y0 /\ fmemo[rb.x1] = rb.y1
        /\ Within(rb.x0, rb.a0, rb.a1) /\ Within(rb.x1, rb.a0, rb.a1)
        /\ BetweenReturned =>
             /\ ~Apart(rb.x0, rb.x1)
             /\ ret = Some(Mid(rb.x0, rb.x1))
             /\ Within(ret.v, rb.a0, rb.a1)
        /\ pc = "done" => first = ret

\* a bracketed root found after two bisections, strictly between the arguments
C3_Witness ==
    /\ mode = "between" /\ pc = "done"
    /\ SignChange /\ fmemo[rb.a0] < 0
    /\ rb.n >= 2
    /\ ret.v \notin {rb.a0, rb.a1}

\* C4, as claimed: called with f(x0) * f(x1) > 0, find_root_between warns and
\* returns the endpoint of the final bracket with the smaller |f|, never a midpoint.
C4_AlwaysEndpoint ==
    (BetweenReturned /\ SameSign) =>
        /\ rb.warned
        /\ ret.v \in {rb.x0, rb.x1}
        /\ Abs(fmemo[ret.v]) <= Abs(fmemo[rb.x0])
        /\ Abs(fmemo[ret.v]) <= Abs(fmemo[rb.x1])

\* C4, amended: called with f(x0) * f(x1) > 0, find_root_between warns and
\* bisects; it returns the endpoint of the final bracket with the smaller |f|
\* (x1 when equal) if f has the same strict sign at both final endpoints, and
\* the midpoint of the final bracket if bisection met a value of f that is zero
\* or of the other sign.
C4_EndpointUnlessSignFound ==
    (BetweenReturned /\ SameSign) =>
        /\ rb.warned
        /\ ~Apart(rb.x0, rb.x1)
        /\ IF fmemo[rb.x0] * fmemo[rb.x1] > 0
           THEN /\ rb.nofound
                /\ ret.v \in {rb.x0, rb.x1}
                /\ Abs(fmemo[rb.x0]) < Abs(fmemo[rb.x1]) => ret.v = rb.x0
                /\ Abs(fmemo[rb.x0]) >= Abs(fmemo[rb.x1]) => ret.v = rb.x1
           ELSE /\ ~rb.nofound
                /\ ret.v = Mid(rb.x0, rb.x1)

\* equal signs at the arguments, another sign met on the way: a midpoint is returned
C4_Witness ==
    /\ BetweenReturned /\ SameSign
    /\ rb.n >= 2
    /\ fmemo[rb.x0] * fmemo[rb.x1] <= 0
    /\ ret.v \notin {rb.x0, rb.x1}

\* C8, as claimed: for all x0, x1 every iteration replaces exactly one endpoint
\* by the midpoint and halves the width exactly, and the loop exits after at
\* most ceil(log2(|x0 - x1| / TOLERANCE)) iterations.
C8_ExactHalving ==
    BetweenEntered =>
        /\ rb.n <= Halvings(Abs(rb.a0 - rb.a1))
        /\ rb.n >= 1 =>
             /\ \/ rb.x0 = rb.px0 /\ rb.x1 # rb.px1
                \/ rb.x0 # rb.px0 /\ rb.x1 = rb.px1
             /\ 2 * Abs(rb.x0 - rb.x1) = Abs(rb.px0 - rb.px1)

\* C8, amended: for x0, x1 in the domain [0, 1] every iteration replaces exactly
\* one endpoint by the midpoint rounded to the nearest number, which halves the
\* width up to that rounding, and the loop exits after at most
\* ceil(log2(|x0 - x1| / TOLERANCE)) + 1 iterations.
C8_HalvingInDomain ==
    (BetweenEntered /\ InDomain) =>
        /\ rb.n <= Halvings(Abs(rb.a0 - rb.a1)) + 1
        /\ rb.n >= 1 =>
             /\ \/ rb.x0 = rb.px0 /\ rb.x1 = Mid(rb.px0, rb.px1) /\ rb.x1 # rb.px1
                \/ rb.x1 = rb.px1 /\ rb.x0 = Mid(rb.px0, rb.px1) /\ rb.x0 # rb.px0
             /\ 2 * Abs(rb.x0 - rb.x1) <= Abs(rb.px0 - rb.px1) + 1

\* a call in the domain that needed one iteration more than ceil(log2(w / TOLERANCE))
C8_Witness ==
    /\ BetweenReturned /\ InDomain
    /\ rb.n >= 2
    /\ rb.n = Halvings(Abs(rb.a0 - rb.a1)) + 1

------------------------------------------------------------------------------
(* Properties of find_limit *)

\* find_limit has returned
LimitReturned == mode = "limit" /\ pc = "done"

C6_NeverProbesCorner == (mode = "limit") => ~probed

\* an iteration of the refinement loop has set both ends of the bracket
LimitIterated ==
    /\ mode = "limit" /\ lim.it >= 1
    /\ pc \in {"near_entry", "near_loop", "limit_near1", "limit_loop", "raised", "done"}

------------------------------------------------------------------------------
(* Properties of the construction of Scanner and Solver *)

\* C7: a Solver is constructed only for a Scanner with a positive fov and
\* altitude_min <= altitude_best <= altitude_max; any other Scanner is rejected.
C7_InvalidRejected ==
    (mode = "solver" /\ solver.state = "constructed") =>
        /\ scanner.fov > 0
        /\ scanner.altitude_min <= scanner.altitude_best
        /\ scanner.altitude_best <= scanner.altitude_max

====
